---- MODULE Spec2Model ----
(***************************************************************************)
(* Off-axis stereo camera geometry of Projection.h and math-helpers.h.     *)
(*                                                                         *)
(* A float is modelled as an extended rational <<n, d>>: d > 0 and         *)
(* gcd(n,d) = 1 for a finite value, <<1,0>> and <<-1,0>> for +Inf and      *)
(* -Inf, <<0,0>> for NaN.  Arithmetic is exact (no rounding); x/0 follows  *)
(* IEEE-754 with zero taken as +0.  A float3/float4 is a tuple of floats,  *)
(* a mat3/mat4 a tuple of columns, as in linalg.h.                         *)
(***************************************************************************)
EXTENDS Integers, Sequences, FiniteSets, TLC

----------------------------------------------------------------------------
(* float *)

Abs(n) == IF n < 0 THEN -n ELSE n

Sgn(n) == IF n < 0 THEN -1 ELSE IF n > 0 THEN 1 ELSE 0

RECURSIVE Gcd(_, _)
Gcd(a, b) == IF b = 0 THEN a ELSE Gcd(b, a % b)

\* the float with numerator n and denominator d, in lowest terms
Reduce(n, d, g) == <<n \div g, d \div g>>

Norm(n, d) ==
  IF d = 0 THEN <<Sgn(n), 0>>
  ELSE Reduce(Sgn(d) * n, Abs(d), Gcd(Abs(n), Abs(d)))

F(n) == <<n, 1>>
Q(n, d) == Norm(n, d)

NaN == <<0, 0>>
PosInf == <<1, 0>>
NegInf == <<-1, 0>>
Zero == <<0, 1>>
One == <<1, 1>>
Two == <<2, 1>>
Half == <<1, 2>>

IsNaN(a) == a = NaN
IsFinite(a) == a[2] # 0

Neg(a) == <<-a[1], a[2]>>

\* a + b with g the gcd of the denominators, not both 0
AddOver(a, b, g) ==
  Norm(a[1] * (b[2] \div g) + b[1] * (a[2] \div g), (a[2] \div g) * b[2])

Add(a, b) ==
  IF a[2] = 1 /\ b[2] = 1 THEN <<a[1] + b[1], 1>>
  ELSE IF a[2] = 0 /\ b[2] = 0
    THEN IF a[1] = b[1] THEN a ELSE NaN
  ELSE AddOver(a, b, Gcd(a[2], b[2]))

Sub(a, b) == Add(a, Neg(b))

MulOver(a, b, g1, g2) ==
  <<(a[1] \div g1) * (b[1] \div g2), (a[2] \div g2) * (b[2] \div g1)>>

\* cross-cancelled before multiplying
Mul(a, b) ==
  IF a[2] = 1 /\ b[2] = 1 THEN <<a[1] * b[1], 1>>
  ELSE IF a[2] = 0 \/ b[2] = 0 THEN Norm(a[1] * b[1], a[2] * b[2])
  ELSE MulOver(a, b, Gcd(Abs(a[1]), b[2]), Gcd(Abs(b[1]), a[2]))

Recip(b) ==
  IF b[2] = 0 THEN (IF b[1] = 0 THEN NaN ELSE Zero)
  ELSE IF b[1] = 0 THEN PosInf
  ELSE <<Sgn(b[1]) * b[2], Abs(b[1])>>

Div(a, b) ==
  IF IsFinite(a) /\ a[1] = 0 /\ IsFinite(b) /\ b[1] = 0 THEN NaN
  ELSE Mul(a, Recip(b))

\* a < b; false when either is NaN
Lt(a, b) ==
  /\ ~IsNaN(a)
  /\ ~IsNaN(b)
  /\ IF a[2] = 0 /\ b[2] = 0 THEN a[1] < b[1]
     ELSE IF a[2] = 0 THEN a[1] < 0
     ELSE IF b[2] = 0 THEN b[1] > 0
     ELSE Add(a, <<-b[1], b[2]>>)[1] < 0

\* a == b; false when either is NaN
Eq(a, b) == ~IsNaN(a) /\ ~IsNaN(b) /\ a = b

Le(a, b) == Lt(a, b) \/ Eq(a, b)

RECURSIVE SqrtUp(_, _)
SqrtUp(n, r) == IF r * r >= n THEN r ELSE SqrtUp(n, r + 1)

Squares(r, n) == r * r = n

IsSquare(n) == Squares(SqrtUp(n, 0), n)

\* the integer square root of a perfect square (of no other number)
ISqrt(n) == CHOOSE r \in {SqrtUp(n, 0)} : r * r = n

\* a float whose square root is a float of the model
HasSqrt(a) ==
  \/ a[2] = 0
  \/ a[1] < 0
  \/ IsSquare(a[1]) /\ IsSquare(a[2])

Sqrt(a) ==
  IF a[2] = 0 THEN (IF a[1] = 1 THEN PosInf ELSE NaN)
  ELSE IF a[1] < 0 THEN NaN
  ELSE <<ISqrt(a[1]), ISqrt(a[2])>>

----------------------------------------------------------------------------
(* float3, float4, mat3, mat4 of linalg.h *)

V3(x, y, z) == <<F(x), F(y), F(z)>>

NaN3 == <<NaN, NaN, NaN>>

IsFinite3(a) == IsFinite(a[1]) /\ IsFinite(a[2]) /\ IsFinite(a[3])

Add3(a, b) == [i \in 1..3 |-> Add(a[i], b[i])]
Sub3(a, b) == [i \in 1..3 |-> Sub(a[i], b[i])]
Neg3(a) == [i \in 1..3 |-> Neg(a[i])]
Scale3(a, s) == [i \in 1..3 |-> Mul(a[i], s)]
DivS3(a, s) == [i \in 1..3 |-> Div(a[i], s)]

Sum3(a) == Add(Add(a[1], a[2]), a[3])

dot(a, b) == Sum3([i \in 1..3 |-> Mul(a[i], b[i])])

\* component i is a[i+1]*b[i+2] - a[i+2]*b[i+1], indices taken cyclically
cross(a, b) ==
  [i \in 1..3 |-> Sub(Mul(a[(i % 3) + 1], b[((i + 1) % 3) + 1]),
                      Mul(a[((i + 1) % 3) + 1], b[(i % 3) + 1]))]

length2(a) == dot(a, a)

\* the largest |component| of a finite vector
MaxAbs3(a) ==
  CHOOSE m \in {<<Abs(a[i][1]), a[i][2]>> : i \in 1..3} :
    \A i \in 1..3 : ~Lt(m, <<Abs(a[i][1]), a[i][2]>>)

LengthBy(a, m) == Mul(m, Sqrt(length2(DivS3(a, m))))

\* sqrt(length2(a)); a finite non-zero vector is scaled by its largest
\* |component| first, which leaves the exact value unchanged and keeps the
\* squares small
length(a) ==
  IF ~IsFinite3(a) \/ a = <<Zero, Zero, Zero>> THEN Sqrt(length2(a))
  ELSE LengthBy(a, MaxAbs3(a))

Unit(u) == DivS3(u, Sqrt(length2(u)))

\* a / length(a): 0/0 = NaN in every component of the zero vector
normalize(a) ==
  IF ~IsFinite3(a) \/ a = <<Zero, Zero, Zero>> THEN DivS3(a, Sqrt(length2(a)))
  ELSE Unit(DivS3(a, MaxAbs3(a)))

\* length(a) is a float of the model
HasLength(a) ==
  \/ ~IsFinite3(a)
  \/ a = <<Zero, Zero, Zero>>
  \/ HasSqrt(length2(DivS3(a, MaxAbs3(a))))

\* every component equal as floats (false with a NaN component)
Eq3(a, b) == Eq(a[1], b[1]) /\ Eq(a[2], b[2]) /\ Eq(a[3], b[3])

\* determinant of the mat3 with columns A[1], A[2], A[3]
\* a.x.x*(a.y.y*a.z.z - a.z.y*a.y.z) + a.x.y*(a.y.z*a.z.x - a.z.z*a.y.x)
\*   + a.x.z*(a.y.x*a.z.y - a.z.x*a.y.y)
determinant(A) == dot(A[1], cross(A[2], A[3]))

\* A * x for a mat3 A
Mul33(A, x) == [r \in 1..3 |-> Sum3([c \in 1..3 |-> Mul(A[c][r], x[c])])]

----------------------------------------------------------------------------
(* mat4 and inverse of linalg.h; a matrix is indexed [column][row] *)

Sum4(a) == Add(Add(a[1], a[2]), Add(a[3], a[4]))

\* float4(v, w)
V4(v, w) == <<v[1], v[2], v[3], w>>

\* mul(M, v) for a mat4 M and a float4 v
mul(M, v) == [r \in 1..4 |-> Sum4([c \in 1..4 |-> Mul(M[c][r], v[c])])]

\* s without its i-th element
Drop(s, i) == [k \in 1..(Len(s) - 1) |-> IF k < i THEN s[k] ELSE s[k + 1]]

\* M without column c and row r
Minor(M, c, r) == Drop([k \in 1..Len(M) |-> Drop(M[k], r)], c)

determinant2(M) == Sub(Mul(M[1][1], M[2][2]), Mul(M[2][1], M[1][2]))

Signed(i, x) == IF i % 2 = 0 THEN x ELSE Neg(x)

determinant4(M) ==
  Sum4([c \in 1..4 |-> Signed(c + 1, Mul(M[c][1], determinant(Minor(M, c, 1))))])

\* inverse(mat3) = adjugate / determinant
inverse3(M) ==
  [c \in 1..3 |-> [r \in 1..3 |->
    Div(Signed(c + r, determinant2(Minor(M, r, c))), determinant(M))]]

AdjugateOver(M, d) ==
  [c \in 1..4 |-> [r \in 1..4 |-> Div(Signed(c + r, determinant(Minor(M, r, c))), d)]]

\* inverse(mat4) = adjugate / determinant
inverse4(M) == AdjugateOver(M, determinant4(M))

Identity4 ==
  << <<One, Zero, Zero, Zero>>, <<Zero, One, Zero, Zero>>,
     <<Zero, Zero, One, Zero>>, <<Zero, Zero, Zero, One>> >>

----------------------------------------------------------------------------
(* math-helpers.h *)

\* mat4 frustum(left, right, bottom, top, znear, zfar)
frustum(left, right, bottom, top, near, far) ==
  << << Div(Mul(Two, near), Sub(right, left)), Zero, Zero, Zero >>,
     << Zero, Div(Mul(Two, near), Sub(top, bottom)), Zero, Zero >>,
     << Div(Add(right, left), Sub(right, left)),
        Div(Add(top, bottom), Sub(top, bottom)),
        Div(Neg(Add(far, near)), Sub(far, near)),
        Neg(One) >>,
     << Zero, Zero,
        Div(Neg(Mul(Mul(Two, far), near)), Sub(far, near)),
        Zero >> >>

----------------------------------------------------------------------------
(* Projection.h: the primitives *)

VARIABLES
  pc,    \* the position of control
  args,  \* the arguments of the call, as passed
  mem    \* the locals and the by-reference outputs

vars == <<pc, args, mem>>

Zero3 == <<Zero, Zero, Zero>>

\* solve 44-50, given D, D1, D2, D3
Cramer(D, D1, D2, D3, x) ==
  IF Eq(D, Zero) THEN [ret |-> FALSE, x |-> x]
  ELSE [ret |-> TRUE, x |-> <<Div(D1, D), Div(D2, D), Div(D3, D)>>]

\* solve with b put into the wrong column for D2 and D3
solve_ColumnsSwapped(A, b, x) ==
  Cramer(determinant(A),
         determinant(<<b, A[2], A[3]>>),
         determinant(<<A[1], A[2], b>>),
         determinant(<<A[1], b, A[3]>>), x)

\* bool solve(mat3 A, float3 b, float3 &x)
solve(A, b, x) ==
  Cramer(determinant(A),
         determinant(<<b, A[2], A[3]>>),
         determinant(<<A[1], b, A[3]>>),
         determinant(<<A[1], A[2], b>>), x)

\* intersectPlanePlane 26-34, given nc, det, da, db
planeLine(na, nb, nc, det, da, db, nl, pl) ==
  IF Eq(det, Zero) THEN [ret |-> FALSE, nl |-> nl, pl |-> pl]
  ELSE [ret |-> TRUE,
        nl |-> nc,
        pl |-> DivS3(Add3(Scale3(cross(nc, nb), da), Scale3(cross(na, nc), db)), det)]

\* intersectPlanePlane with da and db of the wrong sign
intersectPlanePlane_SignLost(na, pa, nb, pb, nl, pl) ==
  planeLine(na, nb, cross(na, nb), length2(cross(na, nb)),
            dot(na, pa), dot(nb, pb), nl, pl)

\* bool intersectPlanePlane(na, pa, nb, pb, float3 &nl, float3 &pl)
intersectPlanePlane(na, pa, nb, pb, nl, pl) ==
  planeLine(na, nb, cross(na, nb), length2(cross(na, nb)),
            Neg(dot(na, pa)), Neg(dot(nb, pb)), nl, pl)

\* closestLineSegmentBetweenTwoLines 60-63, given r = solve(A, b, x)
closestPoints(na, pa, nb, pb, pc1, pc2, r) ==
  IF ~r.ret THEN [solved |-> FALSE, pc1 |-> pc1, pc2 |-> pc2]
  ELSE [solved |-> TRUE,
        pc1 |-> Add3(pa, Scale3(na, r.x[1])),
        pc2 |-> Add3(pb, Scale3(nb, r.x[2]))]

\* closestLineSegmentBetweenTwoLines with x.x as the parameter of both lines
closestLineSegmentBetweenTwoLines_SameParameter(na, pa, nb, pb, pc1, pc2) ==
  LET r == solve(<<na, Neg3(nb), normalize(cross(na, nb))>>, Sub3(pb, pa), NaN3)
  IN  IF ~r.ret THEN [solved |-> FALSE, pc1 |-> pc1, pc2 |-> pc2]
      ELSE [solved |-> TRUE,
            pc1 |-> Add3(pa, Scale3(na, r.x[1])),
            pc2 |-> Add3(pb, Scale3(nb, r.x[1]))]

\* void closestLineSegmentBetweenTwoLines(na, pa, nb, pb, float3 &pc1, float3 &pc2)
\* The local x is written by solve before it is read, so its value at
\* declaration never shows.
closestLineSegmentBetweenTwoLines(na, pa, nb, pb, pc1, pc2) ==
  closestPoints(
    na, pa, nb, pb, pc1, pc2,
    solve(<<na, Neg3(nb), normalize(cross(na, nb))>>, Sub3(pb, pa), NaN3))

\* float3(v.x, v.y, v.z) / v.w
Dehomogenized(v) == DivS3(<<v[1], v[2], v[3]>>, v[4])

\* float3 unprojectNDC(mat4 projInv, mat4 viewInv, float3 ndc); the mul of
\* line 14 computes a value that is dropped
unprojectNDC(projInv, viewInv, ndc) ==
  Dehomogenized(mul(viewInv, mul(projInv, V4(ndc, One))))

\* The operators below take the values of the locals as parameters, in the
\* order in which the code computes them.

\* the near and far plane of offaxisStereoTransform
znear == Q(1, 1000)
zfar == F(1000)

\* offaxisStereoTransform 89-96, given the locals computed so far
transformOUT(X, Y, Z, R, eye, dist, left, right, bottom, top) ==
  [R |-> R,
   projOUT |-> frustum(Div(Mul(Neg(left), znear), dist),
                       Div(Mul(right, znear), dist),
                       Div(Mul(Neg(bottom), znear), dist),
                       Div(Mul(top, znear), dist),
                       znear, zfar),
   viewOUT |-> <<V4(X, Zero), V4(Y, Zero), V4(Z, Zero), V4(Neg3(eye), One)>>]

\* offaxisStereoTransform 71-85, given X, Y and the lengths of the sides
transformOf(X, Y, LL, eye, width, height) ==
  transformOUT(X, Y, cross(X, Y), inverse3(<<X, Y, cross(X, Y)>>), eye,
               dot(Sub3(eye, LL), cross(X, Y)),
               dot(Sub3(eye, LL), X),
               Sub(width, dot(Sub3(eye, LL), X)),
               dot(Sub3(eye, LL), Y),
               Sub(height, dot(Sub3(eye, LL), Y)))

\* void offaxisStereoTransform(LL, LR, UR, eye, mat4 &projOUT, mat4 &viewOUT)
offaxisStereoTransform(LL, LR, UR, eye) ==
  transformOf(DivS3(Sub3(LR, LL), length(Sub3(LR, LL))),
              DivS3(Sub3(UR, LR), length(Sub3(UR, LR))),
              LL, eye,
              length(Sub3(LR, LL)),
              length(Sub3(UR, LR)))

\* offaxisStereoCamera 111-125, given X, Y, eyeP and the lengths of the sides
OffsetsOf(X, Y, eyeP, width, height) ==
  [X |-> X, Y |-> Y, Z |-> cross(X, Y),
   dist |-> dot(eyeP, cross(X, Y)),
   left |-> dot(eyeP, X),
   right |-> Sub(width, dot(eyeP, X)),
   bottom |-> dot(eyeP, Y),
   top |-> Sub(height, dot(eyeP, Y))]

\* offaxisStereoCamera 109-125: the basis of the quad and the offsets of
\* the eye to its edges
Offsets(LL, LR, UR, eye) ==
  OffsetsOf(DivS3(Sub3(LR, LL), length(Sub3(LR, LL))),
            DivS3(Sub3(UR, LR), length(Sub3(UR, LR))),
            Sub3(eye, LL),
            length(Sub3(LR, LL)),
            length(Sub3(UR, LR)))

\* newExtent with the smaller offset doubled
newExtent_Smaller(lo, hi) == IF Lt(lo, hi) THEN Mul(Two, lo) ELSE Mul(Two, hi)

\* offaxisStereoCamera 127-128: newWidth of left, right; newHeight of bottom, top
newExtent(lo, hi) == IF Lt(lo, hi) THEN Mul(Two, hi) ELSE Mul(Two, lo)

\* imageRegion with x and z taken over newHeight
imageRegion_OverHeight(left, right, bottom, top, newWidth, newHeight) ==
  << IF Lt(left, right) THEN Div(Sub(right, left), newHeight) ELSE Zero,
     IF Lt(bottom, top) THEN Div(Sub(top, bottom), newHeight) ELSE Zero,
     IF Lt(right, left) THEN Div(Add(left, right), newHeight) ELSE One,
     IF Lt(top, bottom) THEN Div(Add(bottom, top), newHeight) ELSE One >>

\* imageRegion with z and w left at 1
imageRegion_UpperEdgeFixed(left, right, bottom, top, newWidth, newHeight) ==
  << IF Lt(left, right) THEN Div(Sub(right, left), newWidth) ELSE Zero,
     IF Lt(bottom, top) THEN Div(Sub(top, bottom), newHeight) ELSE Zero,
     One,
     One >>

\* offaxisStereoCamera 134-137
imageRegion(left, right, bottom, top, newWidth, newHeight) ==
  << IF Lt(left, right) THEN Div(Sub(right, left), newWidth) ELSE Zero,
     IF Lt(bottom, top) THEN Div(Sub(top, bottom), newHeight) ELSE Zero,
     IF Lt(right, left) THEN Div(Add(left, right), newWidth) ELSE One,
     IF Lt(top, bottom) THEN Div(Add(bottom, top), newHeight) ELSE One >>

\* offaxisStereoCamera 113-114 and 130-137; fovyOUT = 2 * atan(tanHalfFovy)
cameraOUT(o, newWidth, newHeight) ==
  [dirOUT |-> Neg3(o.Z),
   upOUT |-> o.Y,
   tanHalfFovy |-> Div(newHeight, Mul(Two, o.dist)),
   aspectOUT |-> Div(newWidth, newHeight),
   imageRegionOUT |-> imageRegion(o.left, o.right, o.bottom, o.top, newWidth, newHeight)]

cameraOf(o) == cameraOUT(o, newExtent(o.left, o.right), newExtent(o.bottom, o.top))

\* void offaxisStereoCamera(LL, LR, UR, eye, dirOUT, upOUT, fovyOUT, aspectOUT,
\* imageRegionOUT)
offaxisStereoCamera(LL, LR, UR, eye) == cameraOf(Offsets(LL, LR, UR, eye))

----------------------------------------------------------------------------
(* The inputs of the primitives *)

MaxCoord == 1

Coords == -1..MaxCoord

Vecs == {V3(x, y, z) : x \in Coords, y \in Coords, z \in Coords}

Points == {V3(0, 0, 0), V3(1, 2, 3), <<Q(-1, 2), Zero, F(2)>>}

ThirdColumns == {V3(0, 0, 1), V3(1, 1, 0), V3(1, -1, 2)}

\* what a by-reference output holds before the call
Before == V3(7, 7, 7)

----------------------------------------------------------------------------
(* solve, applied to the matrices with columns c1, c2, c3 *)

SolveInit ==
  /\ pc = "solve"
  /\ args \in [A : {<<c1, c2, c3>> : c1 \in Vecs, c2 \in Vecs, c3 \in ThirdColumns},
               b : Points, x : {Before}]
  /\ mem = [ret |-> FALSE, x |-> args.x]

Solve ==
  /\ pc = "solve"
  /\ mem' = solve(args.A, args.b, mem.x)
  /\ pc' = "done"
  /\ UNCHANGED args

SpecSolve == SolveInit /\ [][Solve]_vars

(* intersectPlanePlane *)

PlaneInit ==
  /\ pc = "intersectPlanePlane"
  /\ args \in [na : Vecs, pa : Points, nb : Vecs, pb : Points,
               nl : {Before}, pl : {Before}]
  /\ mem = [ret |-> FALSE, nl |-> args.nl, pl |-> args.pl]

IntersectPlanePlane ==
  /\ pc = "intersectPlanePlane"
  /\ mem' = intersectPlanePlane(args.na, args.pa, args.nb, args.pb, mem.nl, mem.pl)
  /\ pc' = "done"
  /\ UNCHANGED args

SpecPlane == PlaneInit /\ [][IntersectPlanePlane]_vars

(* closestLineSegmentBetweenTwoLines, on the lines whose common *)
(* perpendicular has a length the model can represent            *)

LinesInit ==
  /\ pc = "closestLineSegmentBetweenTwoLines"
  /\ args \in [na : Vecs, pa : Points, nb : Vecs, pb : Points,
               pc1 : {Before}, pc2 : {Before}]
  /\ HasLength(cross(args.na, args.nb))
  /\ mem = [solved |-> FALSE, pc1 |-> args.pc1, pc2 |-> args.pc2]

ClosestLineSegmentBetweenTwoLines ==
  /\ pc = "closestLineSegmentBetweenTwoLines"
  /\ mem' = closestLineSegmentBetweenTwoLines(
               args.na, args.pa, args.nb, args.pb, mem.pc1, mem.pc2)
  /\ pc' = "done"
  /\ UNCHANGED args

SpecLines == LinesInit /\ [][ClosestLineSegmentBetweenTwoLines]_vars

----------------------------------------------------------------------------
(* The quads and the eyes *)

MaxSide == 2
MaxEye == 2

\* directions of the sides LR-LL and UR-LR: orthogonal, of integer length;
\* the first is aligned with the world axes, the others are not
QuadDirs ==
  { <<V3(1, 0, 0), V3(0, 1, 0)>>,
    <<V3(0, 1, 0), V3(0, 0, 1)>>,
    <<V3(-1, 0, 0), V3(0, 1, 0)>>,
    <<V3(0, 1, 0), V3(-1, 0, 0)>>,
    <<V3(3, 4, 0), V3(-4, 3, 0)>> }

Corners == {V3(1, -1, 0)}

Quad(ll, d, w, h) ==
  [LL |-> ll,
   LR |-> Add3(ll, Scale3(d[1], F(w))),
   UR |-> Add3(Add3(ll, Scale3(d[1], F(w))), Scale3(d[2], F(h)))]

Quads ==
  {Quad(ll, d, w, h) : ll \in Corners, d \in QuadDirs, w \in 1..MaxSide, h \in 1..MaxSide}

Eyes == {V3(x, y, z) : x \in -MaxEye..MaxEye, y \in -MaxEye..MaxEye, z \in 0..1}

\* how far the tracked eye moves along a side of the quad
Shifts == {F(-1), Q(1, 2), F(2)}

----------------------------------------------------------------------------
(* offaxisStereoCamera (strategy 2), called again after the eye has moved *)
(* along one side of the quad                                            *)

\* the eye moved by s along the quad's X or Y
Moved(LL, LR, UR, eye, axis, s) ==
  Add3(eye, Scale3(IF axis = "X" THEN Offsets(LL, LR, UR, eye).X
                                 ELSE Offsets(LL, LR, UR, eye).Y, s))

CameraInit ==
  /\ pc = "offaxisStereoCamera"
  /\ \E q \in Quads, e \in Eyes : args = [LL |-> q.LL, LR |-> q.LR, UR |-> q.UR, eye |-> e]
  /\ mem = [calls |-> 0]

OffaxisStereoCamera ==
  /\ pc = "offaxisStereoCamera"
  /\ mem' = [calls |-> 1,
             cam |-> offaxisStereoCamera(args.LL, args.LR, args.UR, args.eye)]
  /\ pc' = "moveEye"
  /\ UNCHANGED args

MoveEye ==
  /\ pc = "moveEye"
  /\ \E axis \in {"X", "Y"}, s \in Shifts :
       /\ args' = [args EXCEPT !.eye = Moved(args.LL, args.LR, args.UR, args.eye, axis, s)]
       /\ mem' = [calls |-> 2,
                  axis |-> axis,
                  prevEye |-> args.eye,
                  prev |-> mem.cam,
                  cam |-> offaxisStereoCamera(args.LL, args.LR, args.UR, args'.eye)]
  /\ pc' = "done"

CameraNext == OffaxisStereoCamera \/ MoveEye

SpecCamera == CameraInit /\ [][CameraNext]_vars

(* offaxisStereoTransform (strategy 1) *)

TransformInit ==
  /\ pc = "offaxisStereoTransform"
  /\ \E q \in Quads, e \in Eyes : args = [LL |-> q.LL, LR |-> q.LR, UR |-> q.UR, eye |-> e]
  /\ mem = [called |-> FALSE]

OffaxisStereoTransform ==
  /\ pc = "offaxisStereoTransform"
  /\ mem' = offaxisStereoTransform(args.LL, args.LR, args.UR, args.eye)
  /\ pc' = "done"
  /\ UNCHANGED args

SpecTransform == TransformInit /\ [][OffaxisStereoTransform]_vars

----------------------------------------------------------------------------
(* Strategy 3: main builds the matrices with offaxisStereoTransform, or the *)
(* application hands them over; renderMatricesWithPerspectiveCam inverts    *)
(* them and offaxisStereoCameraFromTransform reconstructs the camera, one  *)
(* action per block of its body.                                           *)

MaxDist == 4
MaxSide3 == 4

Corners3 == {V3(0, 0, 0), V3(1, -1, 0)}

Quads3 ==
  {Quad(ll, d, w, h) : ll \in Corners3, d \in QuadDirs, w \in 1..MaxSide3, h \in 1..MaxSide3}

\* the eye at distance dist in front of the corner LL of quad q
EyeOver(q, dist) ==
  Add3(q.LL, Scale3(Offsets(q.LL, q.LR, q.UR, q.LL).Z, F(dist)))

\* the lengths that offaxisStereoCameraFromTransform takes of the frustum
\* of quad q and eye e are floats of the model
RepresentableAt(o) ==
  LET Rep(x, y, z) == HasSqrt(Add(Add(Mul(x, x), Mul(y, y)), Mul(z, z)))
  IN  /\ Rep(o.left, o.bottom, o.dist)
      /\ Rep(o.right, o.bottom, o.dist)
      /\ Rep(o.left, o.top, o.dist)
      /\ Rep(o.left, Zero, o.dist)
      /\ Rep(o.right, Zero, o.dist)
      /\ Rep(Zero, o.bottom, o.dist)
      /\ Rep(Zero, o.top, o.dist)

Representable(q, e) == RepresentableAt(Offsets(q.LL, q.LR, q.UR, e))

\* matrices of an application that projects orthographically
Scaling(x, y, z) ==
  << <<x, Zero, Zero, Zero>>, <<Zero, y, Zero, Zero>>,
     <<Zero, Zero, z, Zero>>, <<Zero, Zero, Zero, One>> >>

Translation(t) ==
  << <<One, Zero, Zero, Zero>>, <<Zero, One, Zero, Zero>>,
     <<Zero, Zero, One, Zero>>, V4(t, One) >>

AppMatrices ==
  {[proj |-> p, view |-> v] :
     p \in {Identity4, Scaling(Half, One, Neg(One))},
     v \in {Identity4, Translation(V3(0, 0, -2))}}

\* what an uninitialized float3 may hold
Uninit == {Zero3, V3(0, 1, 0), NaN3}

Strategy3Init ==
  \/ /\ pc = "strategy3"
     /\ \E q \in Quads3, dist \in 1..MaxDist :
          /\ Representable(q, EyeOver(q, dist))
          /\ args = [source |-> "quad", LL |-> q.LL, LR |-> q.LR, UR |-> q.UR,
                     eye |-> EyeOver(q, dist)]
     /\ mem = [calls |-> 0]
  \/ /\ pc = "render"
     /\ args = [source |-> "app"]
     /\ \E m \in AppMatrices : mem = [proj |-> m.proj, view |-> m.view]

\* main.cpp 369-373
Strategy3 ==
  /\ pc = "strategy3"
  /\ LET t == offaxisStereoTransform(args.LL, args.LR, args.UR, args.eye)
     IN  mem' = [proj |-> t.projOUT, view |-> t.viewOUT]
  /\ pc' = "render"
  /\ UNCHANGED args

\* renderMatricesWithPerspectiveCam, main.cpp 261-265
Render ==
  /\ pc = "render"
  /\ mem' = [projInv |-> inverse4(mem.proj), viewInv |-> inverse4(mem.view)] @@ mem
  /\ pc' = "unproject"
  /\ UNCHANGED args

\* Projection.h 150-160
Unproject ==
  /\ pc = "unproject"
  /\ LET u(x, y, z) == unprojectNDC(mem.projInv, mem.viewInv, V3(x, y, z))
     IN  mem' = [v000 |-> u(-1, -1, -1), v001 |-> u(-1, -1, 1),
                 v100 |-> u(1, -1, -1), v101 |-> u(1, -1, 1),
                 v110 |-> u(1, 1, -1), v111 |-> u(1, 1, 1),
                 v010 |-> u(-1, 1, -1), v011 |-> u(-1, 1, 1)] @@ mem
  /\ pc' = "edges"
  /\ UNCHANGED args

\* Projection.h 163-183; ez11, ey11, ey01, ex11 and ex01 are computed and
\* never read
EdgesAndNormals ==
  /\ pc = "edges"
  /\ LET ez00 == normalize(Sub3(mem.v001, mem.v000))
         ez10 == normalize(Sub3(mem.v101, mem.v100))
         ez01 == normalize(Sub3(mem.v011, mem.v010))
         ey00 == normalize(Sub3(mem.v010, mem.v000))
         ey10 == normalize(Sub3(mem.v110, mem.v100))
         ex00 == normalize(Sub3(mem.v100, mem.v000))
         ex10 == normalize(Sub3(mem.v110, mem.v010))
     IN  mem' = [nL |-> normalize(cross(ey00, ez00)),
                 nR |-> normalize(cross(ez10, ey10)),
                 nB |-> normalize(cross(ez00, ex00)),
                 nT |-> normalize(cross(ex10, ez01))] @@ mem
  /\ pc' = "intersectLR"
  /\ UNCHANGED args

\* Projection.h 186-187; pLR and nLR are declared without a value
IntersectLR ==
  /\ pc = "intersectLR"
  /\ \E pLR \in Uninit, nLR \in Uninit :
       LET r == intersectPlanePlane(mem.nL, mem.v000, mem.nR, mem.v100, nLR, pLR)
       IN  mem' = [isectLR |-> r.ret, nLR |-> r.nl, pLR |-> r.pl] @@ mem
  /\ pc' = "intersectBT"
  /\ UNCHANGED args

\* Projection.h 190-191; pBT and nBT are declared without a value
IntersectBT ==
  /\ pc = "intersectBT"
  /\ \E pBT \in Uninit, nBT \in Uninit :
       LET r == intersectPlanePlane(mem.nB, mem.v000, mem.nT, mem.v010, nBT, pBT)
       IN  mem' = [isectBT |-> r.ret, nBT |-> r.nl, pBT |-> r.pl] @@ mem
  /\ pc' = "closest"
  /\ UNCHANGED args

\* Projection.h 194-195; p1 and p2 are declared without a value, and the
\* call takes nLR, pLR, nBT, pBT whatever isectLR and isectBT say
Closest ==
  /\ pc = "closest"
  /\ \E p1 \in Uninit, p2 \in Uninit :
       LET r == closestLineSegmentBetweenTwoLines(
                  mem.nLR, mem.pLR, mem.nBT, mem.pBT, p1, p2)
       IN  mem' = [solved |-> r.solved, p1 |-> r.pc1, p2 |-> r.pc2] @@ mem
  /\ pc' = "eye"
  /\ UNCHANGED args

\* Projection.h 197
EyeOut ==
  /\ pc = "eye"
  /\ mem' = [eyeOUT |-> DivS3(Add3(mem.p1, mem.p2), Two)] @@ mem
  /\ pc' = "camera"
  /\ UNCHANGED args

\* Projection.h 199-204
CameraFromQuad ==
  /\ pc = "camera"
  /\ LET LL == unprojectNDC(mem.projInv, mem.viewInv, V3(-1, -1, 1))
         LR == unprojectNDC(mem.projInv, mem.viewInv, V3(1, -1, 1))
         UR == unprojectNDC(mem.projInv, mem.viewInv, V3(1, 1, 1))
     IN  mem' = [LL |-> LL, LR |-> LR, UR |-> UR,
                 cam |-> offaxisStereoCamera(LL, LR, UR, mem.eyeOUT)] @@ mem
  /\ pc' = "done"
  /\ UNCHANGED args

Strategy3Next ==
  \/ Strategy3
  \/ Render
  \/ Unproject
  \/ EdgesAndNormals
  \/ IntersectLR
  \/ IntersectBT
  \/ Closest
  \/ EyeOut
  \/ CameraFromQuad

SpecStrategy3 == Strategy3Init /\ [][Strategy3Next]_vars

\* C2: round trip: offaxisStereoCameraFromTransform, given the inverses of
\* the matrices that offaxisStereoTransform builds for a quad (in any
\* orientation) and an eye at positive distance, returns that eye.
C2_RoundTripEye ==
  (pc = "done" /\ args.source = "quad") => Eq3(mem.eyeOUT, args.eye)

\* C10: the outputs of a failed primitive are never consumed: when
\* closestLineSegmentBetweenTwoLines has been called with nLR, pLR, nBT and
\* pBT, both intersectPlanePlane calls had returned true, and when eyeOUT
\* has been computed from p1 and p2, the closest-line solve had succeeded.
C10_FailedOutputsNotConsumed ==
  /\ pc \in {"eye", "camera", "done"} => mem.isectLR /\ mem.isectBT
  /\ pc \in {"camera", "done"} => mem.solved

----------------------------------------------------------------------------
(* Claims about the forward transforms *)

Max(a, b) == IF Lt(a, b) THEN b ELSE a
AbsF(a) == <<Abs(a[1]), a[2]>>

\* C1: with left, right, bottom, top the eye's offsets to the quad edges,
\* newWidth = 2*max(left,right) and newHeight = 2*max(bottom,top), the
\* imageRegion (x0,y0,x1,y1) satisfies -newWidth/2 + x0*newWidth = -left,
\* -newWidth/2 + x1*newWidth = right, -newHeight/2 + y0*newHeight = -bottom,
\* -newHeight/2 + y1*newHeight = top, and aspect = newWidth/newHeight.
C1_RegionLocatesQuad ==
  (mem.calls > 0 /\ Offsets(args.LL, args.LR, args.UR, args.eye).dist # Zero) =>
    LET o == Offsets(args.LL, args.LR, args.UR, args.eye)
        newWidth == Mul(Two, Max(o.left, o.right))
        newHeight == Mul(Two, Max(o.bottom, o.top))
        r == mem.cam.imageRegionOUT
        At(x, extent) == Add(Neg(Mul(extent, Half)), Mul(x, extent))
    IN  /\ Eq(At(r[1], newWidth), Neg(o.left))
        /\ Eq(At(r[3], newWidth), o.right)
        /\ Eq(At(r[2], newHeight), Neg(o.bottom))
        /\ Eq(At(r[4], newHeight), o.top)
        /\ Eq(mem.cam.aspectOUT, Div(newWidth, newHeight))

\* a camera was computed for an eye off both centre lines of a quad that is
\* not aligned with the world axes
C1_Witness ==
  /\ mem.calls > 0
  /\ LET o == Offsets(args.LL, args.LR, args.UR, args.eye)
     IN  /\ o.dist # Zero
         /\ Lt(Zero, o.left) /\ Lt(o.left, o.right)
         /\ Lt(o.top, o.bottom) /\ Lt(Zero, o.top)
         /\ o.X[1][2] > 1

\* C7: for every eye, also one whose projection falls outside the quad,
\* the imageRegion satisfies 0 <= x0 <= x1 <= 1 and 0 <= y0 <= y1 <= 1.
C7_RegionInUnitSquare ==
  mem.calls > 0 =>
    LET r == mem.cam.imageRegionOUT
    IN  /\ Le(Zero, r[1]) /\ Le(r[1], r[3]) /\ Le(r[3], One)
        /\ Le(Zero, r[2]) /\ Le(r[2], r[4]) /\ Le(r[4], One)

\* a camera was computed for an eye whose projection falls outside the quad
C7_Witness ==
  /\ mem.calls > 0
  /\ LET o == Offsets(args.LL, args.LR, args.UR, args.eye)
     IN  Lt(o.left, Zero) /\ Lt(o.top, Zero)

Area(r) == Mul(Sub(r[3], r[1]), Sub(r[4], r[2]))

Asymmetry(o, axis) ==
  IF axis = "X" THEN AbsF(Sub(o.left, o.right)) ELSE AbsF(Sub(o.bottom, o.top))

\* C8: of two eyes at the same distance that differ only in their offset
\* along one quad axis, the one with the larger asymmetry along that axis
\* has the imageRegion of strictly smaller area.
C8_Monotone ==
  pc = "done" =>
    LET o1 == Offsets(args.LL, args.LR, args.UR, mem.prevEye)
        o2 == Offsets(args.LL, args.LR, args.UR, args.eye)
        a1 == Area(mem.prev.imageRegionOUT)
        a2 == Area(mem.cam.imageRegionOUT)
    IN  /\ Lt(Asymmetry(o1, mem.axis), Asymmetry(o2, mem.axis)) => Lt(a2, a1)
        /\ Lt(Asymmetry(o2, mem.axis), Asymmetry(o1, mem.axis)) => Lt(a1, a2)

\* the eye moved from inside the quad to outside it, and the asymmetry grew
C8_Witness ==
  /\ pc = "done"
  /\ LET o1 == Offsets(args.LL, args.LR, args.UR, mem.prevEye)
         o2 == Offsets(args.LL, args.LR, args.UR, args.eye)
     IN  /\ Lt(Zero, o1.left) /\ Lt(Zero, o1.right)
         /\ Lt(o2.right, Zero)
         /\ ~Eq(o1.bottom, o1.top)
         /\ Lt(Asymmetry(o1, mem.axis), Asymmetry(o2, mem.axis))

\* C3: the view matrix of offaxisStereoTransform sends (eye,1) to the
\* origin (0,0,0,1), and a point of the quad's plane to its offsets along
\* X and Y from the eye's projection, at depth minus the eye-to-plane
\* distance.
C3_ViewMapsWorldToEye ==
  pc = "done" =>
    LET o == Offsets(args.LL, args.LR, args.UR, args.eye)
        InEye(p) == mul(mem.viewOUT, V4(p, One))
        w == length(Sub3(args.LR, args.LL))
        h == length(Sub3(args.UR, args.LR))
    IN  /\ InEye(args.eye) = <<Zero, Zero, Zero, One>>
        /\ InEye(args.LL) = <<Neg(o.left), Neg(o.bottom), Neg(o.dist), One>>
        /\ InEye(args.LR) = <<Sub(w, o.left), Neg(o.bottom), Neg(o.dist), One>>
        /\ InEye(args.UR) = <<Sub(w, o.left), Sub(h, o.bottom), Neg(o.dist), One>>

----------------------------------------------------------------------------
(* Claims about the primitives *)

\* C4: intersectPlanePlane returns true exactly when cross(na,nb) is not the
\* zero vector; when it returns true, pl lies on both planes and nl is
\* perpendicular to both normals.
C4_PlanePlane ==
  pc = "done" =>
    /\ mem.ret <=> cross(args.na, args.nb) # Zero3
    /\ mem.ret =>
         /\ Eq(dot(args.na, Sub3(mem.pl, args.pa)), Zero)
         /\ Eq(dot(args.nb, Sub3(mem.pl, args.pb)), Zero)
         /\ Eq(dot(mem.nl, args.na), Zero)
         /\ Eq(dot(mem.nl, args.nb), Zero)

\* two planes that are neither parallel nor through the origin were intersected
C4_Witness ==
  /\ pc = "done"
  /\ mem.ret
  /\ args.pa # Zero3
  /\ args.pb # Zero3
  /\ mem.pl # Zero3
  /\ ~Eq(dot(args.na, args.nb), Zero)

\* C5: solve returns false exactly when determinant(A) = 0, leaving x
\* unmodified; otherwise it returns true with x = (D1/D, D2/D, D3/D), and
\* A[0]*x.x + A[1]*x.y + A[2]*x.z = b.
C5_Solve ==
  pc = "done" =>
    LET A == args.A
        D == determinant(A)
    IN  /\ ~mem.ret <=> Eq(D, Zero)
        /\ ~mem.ret => mem.x = args.x
        /\ mem.ret =>
             /\ mem.x = << Div(determinant(<<args.b, A[2], A[3]>>), D),
                           Div(determinant(<<A[1], args.b, A[3]>>), D),
                           Div(determinant(<<A[1], A[2], args.b>>), D) >>
             /\ Eq3(Mul33(A, mem.x), args.b)

\* a system with a non-integer solution was solved
C5_Witness ==
  /\ pc = "done"
  /\ mem.ret
  /\ args.b # Zero3
  /\ \E i \in 1..3 : mem.x[i][2] > 1

\* C6: for non-parallel lines, pc1 lies on the first line, pc2 on the
\* second, pc2 - pc1 is perpendicular to both directions, and pc1 = pc2
\* when the lines intersect.
C6_ClosestPoints ==
  (pc = "done" /\ cross(args.na, args.nb) # Zero3) =>
    /\ cross(Sub3(mem.pc1, args.pa), args.na) = Zero3
    /\ cross(Sub3(mem.pc2, args.pb), args.nb) = Zero3
    /\ Eq(dot(Sub3(mem.pc2, mem.pc1), args.na), Zero)
    /\ Eq(dot(Sub3(mem.pc2, mem.pc1), args.nb), Zero)
    /\ Eq(dot(Sub3(args.pb, args.pa), cross(args.na, args.nb)), Zero)
         => Eq3(mem.pc1, mem.pc2)

\* two skew lines were given, and the closest points differ
C6_Witness ==
  /\ pc = "done"
  /\ cross(args.na, args.nb) # Zero3
  /\ IsFinite3(mem.pc1)
  /\ IsFinite3(mem.pc2)
  /\ mem.pc1 # mem.pc2
  /\ mem.pc1 # args.pa
  /\ mem.pc2 # args.pb

\* C9: when the two lines are parallel (cross(na,nb) is the zero vector),
\* the inner solve fails and pc1, pc2 keep the values they had before the
\* call.
C9_ParallelKeepsOutputs ==
  (pc = "done" /\ cross(args.na, args.nb) = Zero3) =>
    /\ ~mem.solved
    /\ mem.pc1 = args.pc1
    /\ mem.pc2 = args.pc2

\* C11: Strategy 3 reproduces Strategy 2: for a quad (in any orientation)
\* and an eye at positive distance, offaxisStereoCameraFromTransform, given
\* the inverses of the matrices of offaxisStereoTransform(LL, LR, UR, eye),
\* returns the direction, up, fovy (as newHeight/(2*dist)), aspect and
\* imageRegion that offaxisStereoCamera(LL, LR, UR, eye) returns.
C11_Strategy3ReproducesStrategy2 ==
  (pc = "done" /\ args.source = "quad") =>
    LET direct == offaxisStereoCamera(args.LL, args.LR, args.UR, args.eye)
    IN  /\ Eq3(mem.cam.dirOUT, direct.dirOUT)
        /\ Eq3(mem.cam.upOUT, direct.upOUT)
        /\ Eq(mem.cam.tanHalfFovy, direct.tanHalfFovy)
        /\ Eq(mem.cam.aspectOUT, direct.aspectOUT)
        /\ \A i \in 1..4 : Eq(mem.cam.imageRegionOUT[i], direct.imageRegionOUT[i])

====
